---- MODULE Spec2Model ----
(***************************************************************************)
(* The job-analysis function of ai-job-search-agent: exports.handler,      *)
(* fetchJobDescription and analyzeJobSkills.  One request is followed from *)
(* its arrival to its response; the handler is an async function, so its   *)
(* atomic steps are the stretches of code between two awaits.  The App     *)
(* component of the UI, which posts the analysis request and then the      *)
(* question-generation request, is followed in a specification of its own  *)
(* (AppSpec).                                                              *)
(*                                                                         *)
(* Text is a sequence of characters.  A character is either a real         *)
(* character (" ", "{", "}", ...) or one lexeme that the code and the JSON *)
(* grammar never look inside (a word of prose, a number literal, a whole   *)
(* "key":"value" member).                                                  *)
(***************************************************************************)
EXTENDS Integers, Sequences, FiniteSets, TLC

VARIABLES
  rev,            \* which revision of the function is deployed
  pc,             \* where the handler is: idle, fetching, extracted, analyzing, done
  event,          \* the event the handler was invoked with
  html,           \* response.data of the GET, inside fetchJobDescription
  consulted,      \* the extraction strategies whose query was evaluated
  jobDescription, \* what fetchJobDescription returned to the handler
  prompt,         \* the user message of the completion request in flight
  completion,     \* how the completion call ended, and the message content
  skills,         \* what analyzeJobSkills returned to the handler
  response,       \* what the handler resolved to
  gets,           \* HTTP GETs issued to the target site
  modelCalls,     \* completion calls issued to the model provider
  fetched,        \* how the GET ended, and the error message if it failed
  jobSkills,           \* App state: the analysis response
  isLoading,           \* App state: an analysis is under way
  error,               \* App state: the error shown
  interviewQuestions,  \* App state: the questions response
  isLoadingQuestions,  \* App state: a question generation is under way
  structuredJobData,   \* App state: the analysis response, when structured
  backendStatus,       \* App state: checking, loading, unavailable or ready
  healthCheck,         \* the health check: scheduled, in flight or none
  analysesInFlight,    \* analysis requests posted and not yet settled
  questionsInFlight,   \* question requests posted and not yet settled
  questionPosts,       \* the bodies of the question requests the App has posted
  invocations,         \* the locals of each of several handler invocations
  form                 \* JobResearch: jobUrl, urlError and the last onSubmit call

handlerVars == <<rev, pc, event, html, consulted, jobDescription, prompt, completion,
                 skills, response, gets, modelCalls, fetched>>
appVars == <<jobSkills, isLoading, error, interviewQuestions, isLoadingQuestions,
             structuredJobData, backendStatus, healthCheck, analysesInFlight,
             questionsInFlight, questionPosts>>
vars == <<handlerVars, appVars, invocations, form>>

----------------------------------------------------------------------------
(* Bounds of the model.                                                    *)

\* Elements (JSON-LD scripts, og:description metas, body nodes) per page.
MaxTags == 3
\* Question requests the App posts in one run.
MaxPosts == 2
\* Characters in a model response.
MaxLen == 5
\* Handler invocations that run interleaved.
MaxRequests == 2
\* Lexemes in the text of the URL input.
MaxUrl == 3

----------------------------------------------------------------------------
(* Text.                                                                   *)

SeqsUpTo(S, n) == UNION {[1..k -> S] : k \in 0..n}

\* The texts a page carries, by where they stand: each set has the empty
\* text and a blank one; the JSON-LD descriptions and the meta contents
\* have a plain and a padded one, and the texts of several nodes combine.
LdTexts == {<<>>, <<" ">>, <<"a">>, <<" ", "b">>}
MetaTexts == {<<>>, <<" ">>, <<"c">>, <<"d", " ">>}
NodeTexts == {<<>>, <<" ">>, <<"e">>}

IsSpace(c) == c = " "

RECURSIVE TrimStart(_)
TrimStart(s) ==
  IF s # <<>> /\ IsSpace(Head(s)) THEN TrimStart(Tail(s)) ELSE s

RECURSIVE TrimEnd(_)
TrimEnd(s) ==
  IF s # <<>> /\ IsSpace(s[Len(s)]) THEN TrimEnd(SubSeq(s, 1, Len(s) - 1))
  ELSE s

\* String.prototype.trim
Trim(s) == TrimEnd(TrimStart(s))

\* JavaScript truthiness of a string: only '' is falsy.
Truthy(s) == s # <<>>

----------------------------------------------------------------------------
(* The fetched page, as cheerio sees it: its JSON-LD scripts, its           *)
(* og:description tags and the nodes of its body, each in document order.  *)
(* The scripts and the tags stand in the head, and a node matches at most  *)
(* one selector of the list.                                               *)

\* A script[type="application/ld+json"]: whether JSON.parse of its content
\* succeeds, whether data['@type'] === 'JobPosting', and data.description
\* (has = FALSE: the field is absent).  A block that parses to something
\* without that @type (another type, an array, a scalar) is type "Other".
Malformed == [parses |-> FALSE, type |-> "Other", has |-> FALSE, description |-> <<>>]
OtherType == [parses |-> TRUE, type |-> "Other", has |-> TRUE, description |-> <<"a">>]
JobPosting(has, d) == [parses |-> TRUE, type |-> "JobPosting", has |-> has, description |-> d]

LdBlocks ==
  {Malformed, OtherType, JobPosting(FALSE, <<>>)}
    \cup {JobPosting(TRUE, d) : d \in LdTexts}

\* A meta[property="og:description"], with or without a content attribute.
Metas == {[has |-> FALSE, content |-> <<>>]} \cup {[has |-> TRUE, content |-> t] : t \in MetaTexts}

\* The selectors of fetchJobDescription, in the order of the list.
selectors ==
  << ".job-description", "#job-description", ".description",
     "[data-automation=\"jobDescription\"]", ".job-details" >>

\* A node of the body: the selector it matches (0: none of them) and its text.
Nodes == [sel : 0..Len(selectors), text : NodeTexts]

\* Pages of at most MaxTags elements.
Pages ==
  UNION { [ld : [1..i -> LdBlocks], meta : [1..j -> Metas], body : [1..k -> Nodes]]
          : <<i, j, k>> \in {t \in (0..MaxTags) \X (0..MaxTags) \X (0..MaxTags)
                                : t[1] + t[2] + t[3] <= MaxTags} }

NoPage == [ld |-> <<>>, meta |-> <<>>, body |-> <<>>]

\* $(selector): the nodes of the body that match the n-th selector.
Matching(page, n) == SelectSeq(page.body, LAMBDA nd : nd.sel = n)

\* .text() of a selection: the combined text of its elements.
RECURSIVE TextOf(_)
TextOf(nodes) == IF nodes = <<>> THEN <<>> ELSE Head(nodes).text \o TextOf(Tail(nodes))

----------------------------------------------------------------------------
(* fetchJobDescription, after the GET has returned the page.               *)

\* The loop over the JSON-LD scripts without its try: a block that does not
\* parse ends the loop, and the blocks after it are not examined.
RECURSIVE FromJsonLdAbort(_)
FromJsonLdAbort(blocks) ==
  IF blocks = <<>> THEN <<>>
  ELSE LET data == Head(blocks) IN
       IF ~data.parses THEN <<>>
       ELSE IF data.type = "JobPosting" /\ data.has /\ Truthy(data.description)
       THEN data.description
       ELSE FromJsonLdAbort(Tail(blocks))

\* The loop over the JSON-LD scripts without its `return false`: every
\* qualifying block overwrites jobDescription and the last one stays.
RECURSIVE FromJsonLdNoBreak(_)
FromJsonLdNoBreak(blocks) ==
  IF blocks = <<>> THEN <<>>
  ELSE LET data == blocks[Len(blocks)] IN
       IF data.parses /\ data.type = "JobPosting" /\ data.has /\ Truthy(data.description)
       THEN data.description
       ELSE FromJsonLdNoBreak(SubSeq(blocks, 1, Len(blocks) - 1))

\* jsonLdScripts.each(...): the description of the first block that parses,
\* is a JobPosting and has a truthy description; '' when there is none.
RECURSIVE FromJsonLd(_)
FromJsonLd(blocks) ==
  IF blocks = <<>> THEN <<>>
  ELSE LET data == Head(blocks) IN
       IF data.parses /\ data.type = "JobPosting" /\ data.has /\ Truthy(data.description)
       THEN data.description
       ELSE FromJsonLd(Tail(blocks))

\* The attribute read off the last element of the selection.
MetaContentOfLast(page) ==
  IF page.meta = <<>> THEN [has |-> FALSE, content |-> <<>>]
  ELSE page.meta[Len(page.meta)]

\* $('meta[property="og:description"]').attr('content'): the attribute of the
\* first element of the selection; undefined (has = FALSE) without one.
MetaContent(page) ==
  IF page.meta = <<>> THEN [has |-> FALSE, content |-> <<>>] ELSE Head(page.meta)

FromMeta(page) ==
  LET meta == MetaContent(page) IN
  IF meta.has /\ Truthy(meta.content) THEN meta.content ELSE <<>>

\* The loop over the selectors without its `break`: the last selector that
\* matches overwrites the text of the earlier ones.
RECURSIVE FromSelectorsNoBreak(_, _)
FromSelectorsNoBreak(page, n) ==
  IF n > Len(selectors) THEN <<>>
  ELSE LET elements == Matching(page, n)
           later == FromSelectorsNoBreak(page, n + 1)
       IN IF Len(elements) > 0 /\ \A k \in (n + 1)..Len(selectors) : Len(Matching(page, k)) = 0
          THEN TextOf(elements)
          ELSE later

\* for (const selector of selectors): the text of the selection of the first
\* selector, from the n-th on, whose selection is not empty.
RECURSIVE FromSelectors(_, _)
FromSelectors(page, n) ==
  IF n > Len(selectors) THEN <<>>
  ELSE LET elements == Matching(page, n) IN
       IF Len(elements) > 0 THEN TextOf(elements)
       ELSE FromSelectors(page, n + 1)

\* $('body').text()
BodyText(page) == TextOf(page.body)

\* The chain of fallbacks: jobDescription after each strategy in turn.
AfterJsonLd(page) == FromJsonLd(page.ld)
\* The meta tag consulted whether or not JSON-LD gave a description.
AfterMetaUnguarded(page) ==
  IF Truthy(FromMeta(page)) THEN FromMeta(page) ELSE AfterJsonLd(page)

AfterMeta(page) ==
  IF ~Truthy(AfterJsonLd(page)) THEN FromMeta(page) ELSE AfterJsonLd(page)
AfterSelectors(page) ==
  IF ~Truthy(AfterMeta(page)) THEN FromSelectors(page, 1) ELSE AfterMeta(page)
AfterBody(page) ==
  IF ~Truthy(AfterSelectors(page)) THEN BodyText(page) ELSE AfterSelectors(page)

\* The strategies whose query the chain evaluates on the page.
Consulted(page) ==
  {"json-ld"}
    \cup (IF ~Truthy(AfterJsonLd(page)) THEN {"meta"} ELSE {})
    \cup (IF ~Truthy(AfterMeta(page)) THEN {"selectors"} ELSE {})
    \cup (IF ~Truthy(AfterSelectors(page)) THEN {"body"} ELSE {})

\* return jobDescription, untrimmed
ExtractUntrimmed(page) == AfterBody(page)

\* return jobDescription.trim()
Extract(page) == Trim(AfterBody(page))

----------------------------------------------------------------------------
(* JSON.  The characters of a JSON text: "{", "}", ",", " ", the quote,    *)
(* and these lexemes: "0" a number literal; "m" the member                 *)
(* "job_title":"X"; "\\m" the same member with its quotes escaped, as it   *)
(* stands inside a string literal; a key of KeyTokens, standing for the    *)
(* quoted key and its colon; "w" a word of prose, which is no JSON.        *)

Quote == "\""
KeyTokens == {"raw_output", "error", "details", "url"}

\* A JSON value: a number, or an object mapping its keys to strings.
NumberValue == [kind |-> "number", obj |-> <<>>]
ObjectValue(f) == [kind |-> "object", obj |-> f]
NoValue == [kind |-> "none", obj |-> <<>>]

Failure == [ok |-> FALSE, value |-> NoValue, next |-> 0]

RECURSIVE SkipSpace(_, _)
SkipSpace(t, i) == IF i <= Len(t) /\ IsSpace(t[i]) THEN SkipSpace(t, i + 1) ELSE i

\* Escaping of a string's characters in a string literal, and its inverse.
Escape(s) == [i \in 1..Len(s) |-> IF s[i] = "m" THEN "\\m" ELSE s[i]]
Unescape(s) == [i \in 1..Len(s) |-> IF s[i] = "\\m" THEN "m" ELSE s[i]]

\* A string literal opening at t[i].
ParseString(t, i) ==
  IF i > Len(t) \/ t[i] # Quote THEN Failure
  ELSE LET closing == {j \in (i + 1)..Len(t) : t[j] = Quote} IN
       IF closing = {} THEN Failure
       ELSE LET j == CHOOSE j \in closing : \A k \in closing : j <= k IN
            [ok |-> TRUE, value |-> Unescape(SubSeq(t, i + 1, j - 1)), next |-> j + 1]

\* One member at t[i]: [ok, key, value, next].
ParseMember(t, i) ==
  IF i > Len(t) THEN [ok |-> FALSE, key |-> "", value |-> <<>>, next |-> 0]
  ELSE IF t[i] = "m"
       THEN [ok |-> TRUE, key |-> "job_title", value |-> <<"X">>, next |-> i + 1]
  ELSE IF t[i] \in KeyTokens
       THEN LET s == ParseString(t, i + 1) IN
            [ok |-> s.ok, key |-> t[i], value |-> s.value, next |-> s.next]
  ELSE [ok |-> FALSE, key |-> "", value |-> <<>>, next |-> 0]

\* The members of an object from t[i] on, up to its closing brace; f holds
\* the members read so far (a repeated key keeps its last value).
RECURSIVE ParseMembers(_, _, _)
ParseMembers(t, i, f) ==
  LET m == ParseMember(t, i) IN
  IF ~m.ok THEN Failure
  ELSE LET g == [k \in DOMAIN f \cup {m.key} |-> IF k = m.key THEN m.value ELSE f[k]]
           j == SkipSpace(t, m.next)
       IN IF j > Len(t) THEN Failure
          ELSE IF t[j] = "}" THEN [ok |-> TRUE, value |-> ObjectValue(g), next |-> j + 1]
          ELSE IF t[j] = "," THEN ParseMembers(t, SkipSpace(t, j + 1), g)
          ELSE Failure

\* One value at t[i].
ParseValue(t, i) ==
  IF i > Len(t) THEN Failure
  ELSE IF t[i] = "0" THEN [ok |-> TRUE, value |-> NumberValue, next |-> i + 1]
  ELSE IF t[i] = "{"
       THEN LET j == SkipSpace(t, i + 1) IN
            IF j <= Len(t) /\ t[j] = "}"
            THEN [ok |-> TRUE, value |-> ObjectValue(<<>>), next |-> j + 1]
            ELSE ParseMembers(t, j, <<>>)
  ELSE Failure

\* JSON.parse(t): ok = FALSE stands for the SyntaxError it throws.
JSONParse(t) ==
  LET v == ParseValue(t, SkipSpace(t, 1)) IN
  IF v.ok /\ SkipSpace(t, v.next) = Len(t) + 1
  THEN [ok |-> TRUE, value |-> v.value]
  ELSE [ok |-> FALSE, value |-> NoValue]

\* The order in which the keys of the objects of this program were inserted.
KeyOrder == <<"job_title", "raw_output", "error", "details", "url">>

StringifyMember(k, s) ==
  IF k = "job_title" /\ s = <<"X">> THEN <<"m">>
  ELSE <<k, Quote>> \o Escape(s) \o <<Quote>>

RECURSIVE StringifyMembers(_, _, _)
StringifyMembers(f, n, first) ==
  IF n > Len(KeyOrder) THEN <<>>
  ELSE IF KeyOrder[n] \in DOMAIN f
       THEN (IF first THEN <<>> ELSE <<",">>)
            \o StringifyMember(KeyOrder[n], f[KeyOrder[n]])
            \o StringifyMembers(f, n + 1, FALSE)
  ELSE StringifyMembers(f, n + 1, first)

\* JSON.stringify(v)
JSONStringify(v) ==
  IF v.kind = "number" THEN <<"0">>
  ELSE <<"{">> \o StringifyMembers(v.obj, 1, TRUE) \o <<"}">>

----------------------------------------------------------------------------
(* analyzeJobSkills, after the completion call has returned.               *)

\* The characters of a model response: an object has no member or the one
\* member "m".
Alphabet == {"{", "}", "m", "0", "w", " "}
Responses == SeqsUpTo(Alphabet, MaxLen)

Positions(t, c) == {i \in 1..Len(t) : t[i] = c}
Min(S) == CHOOSE x \in S : \A y \in S : x <= y
Max(S) == CHOOSE x \in S : \A y \in S : x >= y

\* content.match(/{[\s\S]*}/): the leftmost match, taken greedily, runs from
\* the first "{" to the last "}" of the text; null (found = FALSE) when no
\* "}" follows the first "{".
MatchBraces(t) ==
  LET opens == Positions(t, "{")
      closes == Positions(t, "}")
  IN IF opens = {} \/ closes = {} \/ Max(closes) < Min(opens)
     THEN [found |-> FALSE, text |-> <<>>]
     ELSE [found |-> TRUE, text |-> SubSeq(t, Min(opens), Max(closes))]

RawOutput(text) == ObjectValue([raw_output |-> text])

\* analyzeJobSkills without the catch around the second JSON.parse: the
\* SyntaxError of the matched substring escapes and no value is returned.
AnalyzeJobSkillsUncaught(raw) ==
  LET text == Trim(raw)
      direct == JSONParse(text)
      jsonMatch == MatchBraces(text)
  IN IF direct.ok THEN direct.value
     ELSE IF jsonMatch.found THEN JSONParse(jsonMatch.text).value
     ELSE RawOutput(text)

\* analyzeJobSkills returning the text unparsed, whatever it holds.
AnalyzeJobSkillsAlwaysRaw(raw) == RawOutput(Trim(raw))

\* analyzeJobSkills falling back to the matched substring, not to the text.
AnalyzeJobSkillsRawMatch(raw) ==
  LET text == Trim(raw)
      direct == JSONParse(text)
      jsonMatch == MatchBraces(text)
  IN IF direct.ok THEN direct.value
     ELSE IF jsonMatch.found
          THEN LET extracted == JSONParse(jsonMatch.text) IN
               IF extracted.ok THEN extracted.value ELSE RawOutput(jsonMatch.text)
     ELSE RawOutput(text)

\* The value analyzeJobSkills returns for the message content `raw`.
AnalyzeJobSkills(raw) ==
  LET text == Trim(raw)
      direct == JSONParse(text)
      jsonMatch == MatchBraces(text)
  IN IF direct.ok THEN direct.value
     ELSE IF jsonMatch.found
          THEN LET extracted == JSONParse(jsonMatch.text) IN
               IF extracted.ok THEN extracted.value ELSE RawOutput(text)
     ELSE RawOutput(text)

----------------------------------------------------------------------------
(* exports.handler                                                         *)

Revisions == {"part_002", "part_003"}

Events == [httpMethod : {"POST", "GET"}, body : {"malformed", "no url", "url"}]
NoEvent == [httpMethod |-> "", body |-> ""]

\* Error messages of the two upstream calls.
TimeoutMessage == <<"timeout of 10000ms exceeded">>
FetchErrors == {TimeoutMessage, <<"Request failed with status code 404">>}
ModelErrors == {<<"429 Rate limit reached">>, <<"Connection error.">>}
NullContentMessage == <<"Cannot read properties of null (reading 'trim')">>

\* The completion call: not ended, ended with the message content `text`,
\* ended with a null content, or failed.
NoCompletion == [outcome |-> "none", content |-> <<>>]
Completed(text) == [outcome |-> "content", content |-> text]
NullContent == [outcome |-> "null content", content |-> <<>>]
FailedCompletion(message) == [outcome |-> "error", content |-> message]

\* The GET: not ended, ended with a page, or failed with an error message.
NoFetch == [outcome |-> "none", message |-> <<>>]
FetchedPage == [outcome |-> "page", message |-> <<>>]
FetchFailed(message) == [outcome |-> "error", message |-> message]

NoPrompt == [instructions |-> "", jobText |-> <<>>]
SkillsPrompt(text) == [instructions |-> "Extract the required skills", jobText |-> text]

NoResponse == [statusCode |-> 0, body |-> <<>>]
Respond(status, f) == [statusCode |-> status, body |-> JSONStringify(ObjectValue(f))]

\* A catch that throws a new error without the message of the one caught.
FetchThrowsBare(r, message) == <<"Failed to fetch job description">>

\* The catch of fetchJobDescription: what it throws for the error `message`.
FetchThrows(r, message) ==
  IF r = "part_003" THEN message
  ELSE <<"Failed to fetch job description: ">> \o message

\* The catch of analyzeJobSkills.
AnalyzeThrows(r, message) ==
  IF r = "part_003" THEN message
  ELSE <<"Failed to analyze job skills: ">> \o message

\* The handler's answer to an error thrown by either function.
ErrorResponse(r, message) ==
  IF r = "part_003"
  THEN Respond(500, [error |-> <<"Failed to fetch job description">>,
                     details |-> message, url |-> <<"https://job">>])
  ELSE Respond(500, [error |-> <<"Failed to analyze job posting">>, details |-> message])

----------------------------------------------------------------------------
(* App: the values of its state.                                           *)

\* The data of an analysis response: an object with some of these fields.
\* A field holds a text; required_skills holds an object, which the App
\* only tests for truthiness, written as one lexeme.
AnalysisKeys == {"job_title", "company", "required_skills", "raw_output"}
FieldValues(k) ==
  IF k = "job_title" THEN {<<"X">>}
  ELSE IF k = "company" THEN {<<"Acme">>}
  ELSE IF k = "required_skills" THEN {<<"{technical_skills}">>}
  ELSE {<<>>, <<"T">>}
AnalysisTexts == UNION {FieldValues(k) : k \in AnalysisKeys}
AnalysisData ==
  {ObjectValue(f) : f \in UNION {{g \in [K -> AnalysisTexts] : \A k \in K : g[k] \in FieldValues(k)} :
                                  K \in SUBSET AnalysisKeys}}

\* v.k in JavaScript: undefined, which is falsy, when the field is absent.
Field(v, k) == IF k \in DOMAIN v.obj THEN v.obj[k] ELSE <<>>

NoError == <<>>
AnalysisErrors == {<<"URL is required">>, <<"Network Error">>}
Questions == ObjectValue([technical_questions |-> <<"[questions]">>])

\* The useState initial values.
\* The handler invocations that run interleaved in one process, and the
\* locals of one that has not started.
Requests == 1..MaxRequests
NewInvocation ==
  [pc |-> "idle", event |-> NoEvent, fetched |-> NoFetch, html |-> NoPage,
   jobDescription |-> <<>>, prompt |-> NoPrompt, completion |-> NoCompletion,
   response |-> NoResponse]

AppIdle ==
  /\ jobSkills = NoValue
  /\ isLoading = FALSE
  /\ error = NoError
  /\ interviewQuestions = NoValue
  /\ isLoadingQuestions = FALSE
  /\ structuredJobData = NoValue
  /\ backendStatus = "checking"
  /\ healthCheck = "scheduled"
  /\ analysesInFlight = 0
  /\ questionsInFlight = 0
  /\ questionPosts = <<>>

Init ==
  /\ rev \in Revisions
  /\ pc = "idle"
  /\ event = NoEvent
  /\ html = NoPage
  /\ consulted = {}
  /\ jobDescription = <<>>
  /\ prompt = NoPrompt
  /\ completion = NoCompletion
  /\ skills = NoValue
  /\ response = NoResponse
  /\ gets = 0
  /\ modelCalls = 0
  /\ fetched = NoFetch
  /\ AppIdle
  /\ invocations = [i \in Requests |-> NewInvocation]
  /\ form = [jobUrl |-> <<>>, urlError |-> <<>>, onSubmit |-> <<>>]

\* A handler that issues the completion call together with the GET, before
\* the page is there.
HandlerStartWithOverlap(ev) ==
  /\ event' = ev
  /\ IF ev.httpMethod # "POST"
     THEN /\ response' = Respond(405, [error |-> <<"Method not allowed">>])
          /\ pc' = "done"
          /\ UNCHANGED <<gets, modelCalls>>
     ELSE IF ev.body = "malformed"
     THEN /\ response' = Respond(500, [error |-> <<"Failed to analyze job posting">>,
                                       details |-> <<"Unexpected token">>])
          /\ pc' = "done"
          /\ UNCHANGED <<gets, modelCalls>>
     ELSE IF ev.body = "no url"
     THEN /\ response' = Respond(400, [error |-> <<"URL is required">>])
          /\ pc' = "done"
          /\ UNCHANGED <<gets, modelCalls>>
     ELSE /\ response' = response
          /\ pc' = "fetching"
          /\ gets' = gets + 1
          /\ modelCalls' = modelCalls + 1
  /\ UNCHANGED <<rev, html, consulted, jobDescription, prompt, completion, skills, fetched>>
  /\ UNCHANGED <<appVars, invocations, form>>

\* A handler that parses the body before it looks at the method.
HandlerStartWithParseFirst(ev) ==
  /\ event' = ev
  /\ IF ev.body = "malformed"
     THEN /\ response' = Respond(500, [error |-> <<"Failed to analyze job posting">>,
                                       details |-> <<"Unexpected token">>])
          /\ pc' = "done"
          /\ gets' = gets
     ELSE IF ev.httpMethod # "POST"
     THEN /\ response' = Respond(405, [error |-> <<"Method not allowed">>])
          /\ pc' = "done"
          /\ gets' = gets
     ELSE IF ev.body = "no url"
     THEN /\ response' = Respond(400, [error |-> <<"URL is required">>])
          /\ pc' = "done"
          /\ gets' = gets
     ELSE /\ response' = response
          /\ pc' = "fetching"
          /\ gets' = gets + 1
  /\ UNCHANGED <<rev, html, consulted, jobDescription, prompt, completion, skills,
                 modelCalls, fetched>>
  /\ UNCHANGED <<appVars, invocations, form>>

\* The handler up to its first await: the method and the body are checked
\* and fetchJobDescription issues the GET.
HandlerStartWith(ev) ==
  /\ event' = ev
  /\ IF ev.httpMethod # "POST"
     THEN /\ response' = Respond(405, [error |-> <<"Method not allowed">>])
          /\ pc' = "done"
          /\ gets' = gets
     ELSE IF ev.body = "malformed"
     THEN /\ response' = Respond(500, [error |-> <<"Failed to analyze job posting">>,
                                       details |-> <<"Unexpected token">>])
          /\ pc' = "done"
          /\ gets' = gets
     ELSE IF ev.body = "no url"
     THEN /\ response' = Respond(400, [error |-> <<"URL is required">>])
          /\ pc' = "done"
          /\ gets' = gets
     ELSE /\ response' = response
          /\ pc' = "fetching"
          /\ gets' = gets + 1
  /\ UNCHANGED <<rev, html, consulted, jobDescription, prompt, completion, skills,
                 modelCalls, fetched>>
  /\ UNCHANGED <<appVars, invocations, form>>

HandlerStart == pc = "idle" /\ \E ev \in Events : HandlerStartWith(ev)

\* The GET returns the page: fetchJobDescription runs to its return, which
\* resolves the promise the handler awaits.
FetchReturnsWith(page) ==
  /\ html' = page
  /\ consulted' = Consulted(page)
  /\ jobDescription' = Extract(page)
  /\ pc' = "extracted"
  /\ fetched' = FetchedPage
  /\ UNCHANGED <<rev, event, prompt, completion, skills, response, gets, modelCalls>>
  /\ UNCHANGED <<appVars, invocations, form>>

FetchReturns == pc = "fetching" /\ \E page \in Pages : FetchReturnsWith(page)

\* The model called whatever the description is.
HandlerResumesUnchecked ==
  /\ pc = "extracted"
  /\ html' = NoPage
  /\ consulted' = {}
  /\ prompt' = SkillsPrompt(jobDescription)
  /\ modelCalls' = modelCalls + 1
  /\ pc' = "analyzing"
  /\ UNCHANGED <<rev, event, jobDescription, completion, skills, response, gets, fetched>>
  /\ UNCHANGED <<appVars, invocations, form>>

\* The handler resumes with the description (the locals of
\* fetchJobDescription are gone): it answers 400 when the description is
\* empty and otherwise calls analyzeJobSkills, which builds the prompt and
\* issues the completion call.
HandlerResumes ==
  /\ pc = "extracted"
  /\ html' = NoPage
  /\ consulted' = {}
  /\ IF ~Truthy(jobDescription)
     THEN /\ response' = Respond(400,
                [error |-> <<"Could not extract job description from the provided URL">>])
          /\ pc' = "done"
          /\ UNCHANGED <<prompt, modelCalls>>
     ELSE /\ prompt' = SkillsPrompt(jobDescription)
          /\ modelCalls' = modelCalls + 1
          /\ pc' = "analyzing"
          /\ UNCHANGED response
  /\ UNCHANGED <<rev, event, jobDescription, completion, skills, gets, fetched>>
  /\ UNCHANGED <<appVars, invocations, form>>

\* The GET fails (axios rejects): only part_003 sets a timeout.
FetchFailsWith(message) ==
  /\ message = TimeoutMessage => rev = "part_003"
  /\ fetched' = FetchFailed(message)
  /\ response' = ErrorResponse(rev, FetchThrows(rev, message))
  /\ pc' = "done"
  /\ UNCHANGED <<rev, event, html, consulted, jobDescription, prompt, completion,
                 skills, gets, modelCalls>>
  /\ UNCHANGED <<appVars, invocations, form>>

FetchFails == pc = "fetching" /\ \E message \in FetchErrors : FetchFailsWith(message)

\* The completion call returns a message with the text `raw`:
\* analyzeJobSkills returns a value and the handler answers 200 with it.
\* The description, dead by now, and the request, no longer in flight, are
\* dropped.
ModelReturnsWith(raw) ==
  /\ completion' = Completed(raw)
  /\ skills' = AnalyzeJobSkills(raw)
  /\ response' = [statusCode |-> 200, body |-> JSONStringify(skills')]
  /\ pc' = "done"
  /\ jobDescription' = <<>>
  /\ prompt' = NoPrompt
  /\ UNCHANGED <<rev, event, html, consulted, gets, modelCalls, fetched>>
  /\ UNCHANGED <<appVars, invocations, form>>

ModelReturns == pc = "analyzing" /\ \E raw \in Responses : ModelReturnsWith(raw)

\* The TypeError of .trim() on a null content caught by nobody: the
\* handler's promise rejects and no response is made.
ModelReturnsNullUncaught ==
  /\ pc = "analyzing"
  /\ completion' = NullContent
  /\ response' = NoResponse
  /\ pc' = "done"
  /\ jobDescription' = <<>>
  /\ prompt' = NoPrompt
  /\ UNCHANGED <<rev, event, html, consulted, skills, gets, modelCalls, fetched>>
  /\ UNCHANGED <<appVars, invocations, form>>

\* The completion call returns a message whose content is null: .trim()
\* throws a TypeError inside the try of analyzeJobSkills.
ModelReturnsNull ==
  /\ pc = "analyzing"
  /\ completion' = NullContent
  /\ response' = ErrorResponse(rev, AnalyzeThrows(rev, NullContentMessage))
  /\ pc' = "done"
  /\ jobDescription' = <<>>
  /\ prompt' = NoPrompt
  /\ UNCHANGED <<rev, event, html, consulted, skills, gets, modelCalls, fetched>>
  /\ UNCHANGED <<appVars, invocations, form>>

\* A completion call that is issued once more after its first failure.
ModelFailsWithRetry(message) ==
  /\ completion' = FailedCompletion(message)
  /\ IF modelCalls < 2
     THEN /\ modelCalls' = modelCalls + 1
          /\ UNCHANGED <<pc, response, jobDescription, prompt>>
     ELSE /\ response' = ErrorResponse(rev, AnalyzeThrows(rev, message))
          /\ pc' = "done"
          /\ jobDescription' = <<>>
          /\ prompt' = NoPrompt
          /\ UNCHANGED modelCalls
  /\ UNCHANGED <<rev, event, html, consulted, skills, gets, fetched>>
  /\ UNCHANGED <<appVars, invocations, form>>

\* The completion call fails (auth, rate limit, network).
ModelFailsWith(message) ==
  /\ completion' = FailedCompletion(message)
  /\ response' = ErrorResponse(rev, AnalyzeThrows(rev, message))
  /\ pc' = "done"
  /\ jobDescription' = <<>>
  /\ prompt' = NoPrompt
  /\ UNCHANGED <<rev, event, html, consulted, skills, gets, modelCalls, fetched>>
  /\ UNCHANGED <<appVars, invocations, form>>

ModelFails == pc = "analyzing" /\ \E message \in ModelErrors : ModelFailsWith(message)

Next ==
  \/ HandlerStart
  \/ FetchReturns
  \/ HandlerResumes
  \/ FetchFails
  \/ ModelReturns
  \/ ModelReturnsNull
  \/ ModelFails

Spec == Init /\ [][Next]_vars

----------------------------------------------------------------------------
(* App: checkBackendStatus, analyzeJobPosting, generateInterviewQuestions   *)

\* The data of a health response: its status field.
HealthStatuses == {"online", "starting"}

\* checkBackendStatus up to its await, called by the effect after the first
\* render and by the timer set after a failure.
CheckBackendStatus ==
  /\ healthCheck = "scheduled"
  /\ backendStatus' = "loading"
  /\ healthCheck' = "in flight"
  /\ UNCHANGED <<jobSkills, isLoading, error, interviewQuestions, isLoadingQuestions,
                 structuredJobData, analysesInFlight, questionsInFlight, questionPosts>>
  /\ UNCHANGED <<handlerVars, invocations, form>>

\* The health request is answered with a data whose status is `status`.
HealthAnswersWith(status) ==
  /\ backendStatus' = IF status = "online" THEN "ready" ELSE backendStatus
  /\ healthCheck' = "none"
  /\ UNCHANGED <<jobSkills, isLoading, error, interviewQuestions, isLoadingQuestions,
                 structuredJobData, analysesInFlight, questionsInFlight, questionPosts>>
  /\ UNCHANGED <<handlerVars, invocations, form>>

HealthAnswers == healthCheck = "in flight" /\ \E status \in HealthStatuses : HealthAnswersWith(status)

\* The health request fails: the catch sets a timer for another check.
HealthFails ==
  /\ healthCheck = "in flight"
  /\ backendStatus' = "unavailable"
  /\ healthCheck' = "scheduled"
  /\ UNCHANGED <<jobSkills, isLoading, error, interviewQuestions, isLoadingQuestions,
                 structuredJobData, analysesInFlight, questionsInFlight, questionPosts>>
  /\ UNCHANGED <<handlerVars, invocations, form>>

\* An analyzeJobPosting whose catch is not followed by a finally.
AnalysisFailsWithStuck(message) ==
  /\ error' = message
  /\ analysesInFlight' = analysesInFlight - 1
  /\ UNCHANGED <<jobSkills, isLoading, interviewQuestions, isLoadingQuestions,
                 structuredJobData, backendStatus, healthCheck, questionsInFlight,
                 questionPosts>>
  /\ UNCHANGED <<handlerVars, invocations, form>>

\* A form whose input and button are never disabled.
AnalyzeJobPostingUnguarded ==
  /\ isLoading' = TRUE
  /\ error' = NoError
  /\ jobSkills' = NoValue
  /\ interviewQuestions' = NoValue
  /\ structuredJobData' = NoValue
  /\ analysesInFlight' = analysesInFlight + 1
  /\ UNCHANGED <<isLoadingQuestions, backendStatus, healthCheck, questionsInFlight,
                 questionPosts>>
  /\ UNCHANGED <<handlerVars, invocations, form>>

\* analyzeJobPosting up to its await.  JobResearch calls it from its submit
\* handler; its input and its button are disabled unless the backend is
\* ready and no analysis is under way.
AnalyzeJobPosting ==
  /\ backendStatus = "ready"
  /\ ~isLoading
  /\ isLoading' = TRUE
  /\ error' = NoError
  /\ jobSkills' = NoValue
  /\ interviewQuestions' = NoValue
  /\ structuredJobData' = NoValue
  /\ analysesInFlight' = analysesInFlight + 1
  /\ UNCHANGED <<isLoadingQuestions, backendStatus, healthCheck, questionsInFlight,
                 questionPosts>>
  /\ UNCHANGED <<handlerVars, invocations, form>>

\* The analysis response arrives with `data`.
AnalysisReturnsWith(data) ==
  /\ jobSkills' = data
  /\ structuredJobData' =
       IF data # NoValue /\ data.kind = "object"
          /\ Truthy(Field(data, "job_title")) /\ Truthy(Field(data, "required_skills"))
       THEN data
       ELSE structuredJobData
  /\ isLoading' = FALSE
  /\ analysesInFlight' = analysesInFlight - 1
  /\ UNCHANGED <<error, interviewQuestions, isLoadingQuestions, backendStatus, healthCheck,
                 questionsInFlight, questionPosts>>
  /\ UNCHANGED <<handlerVars, invocations, form>>

AnalysisReturns == analysesInFlight > 0 /\ \E data \in AnalysisData : AnalysisReturnsWith(data)

\* The analysis request fails, or is answered with an error status.
AnalysisFailsWith(message) ==
  /\ error' = message
  /\ isLoading' = FALSE
  /\ analysesInFlight' = analysesInFlight - 1
  /\ UNCHANGED <<jobSkills, interviewQuestions, isLoadingQuestions, structuredJobData,
                 backendStatus, healthCheck, questionsInFlight, questionPosts>>
  /\ UNCHANGED <<handlerVars, invocations, form>>

AnalysisFails == analysesInFlight > 0 /\ \E message \in AnalysisErrors : AnalysisFailsWith(message)

\* The job_details that generateInterviewQuestions sends.
DataToSend ==
  IF structuredJobData # NoValue THEN structuredJobData
  ELSE ObjectValue([job_title |-> <<"Position from job posting">>,
                    raw_output |-> IF Truthy(Field(jobSkills, "raw_output"))
                                   THEN Field(jobSkills, "raw_output")
                                   ELSE <<"No job description available">>])

\* generateInterviewQuestions up to its await.  Its button is rendered
\* while there is an analysis response, no analysis is under way and no
\* question generation is under way.
GenerateInterviewQuestions ==
  /\ jobSkills # NoValue
  /\ ~isLoading
  /\ ~isLoadingQuestions
  /\ Len(questionPosts) < MaxPosts
  /\ isLoadingQuestions' = TRUE
  /\ questionsInFlight' = questionsInFlight + 1
  /\ questionPosts' = Append(questionPosts, [job_details |-> DataToSend])
  /\ UNCHANGED <<jobSkills, isLoading, error, interviewQuestions, structuredJobData,
                 backendStatus, healthCheck, analysesInFlight>>
  /\ UNCHANGED <<handlerVars, invocations, form>>

\* The questions response arrives.
QuestionsReturn ==
  /\ questionsInFlight > 0
  /\ interviewQuestions' = Questions
  /\ isLoadingQuestions' = FALSE
  /\ questionsInFlight' = questionsInFlight - 1
  /\ UNCHANGED <<jobSkills, isLoading, error, structuredJobData, backendStatus, healthCheck,
                 analysesInFlight, questionPosts>>
  /\ UNCHANGED <<handlerVars, invocations, form>>

\* A catch that also drops the questions held.
QuestionsFailClearing ==
  /\ questionsInFlight > 0
  /\ error' = <<"Failed to generate interview questions. Please try again.">>
  /\ interviewQuestions' = NoValue
  /\ isLoadingQuestions' = FALSE
  /\ questionsInFlight' = questionsInFlight - 1
  /\ UNCHANGED <<jobSkills, isLoading, structuredJobData, backendStatus,
                 healthCheck, analysesInFlight, questionPosts>>
  /\ UNCHANGED <<handlerVars, invocations, form>>

\* The questions request fails.
QuestionsFail ==
  /\ questionsInFlight > 0
  /\ error' = <<"Failed to generate interview questions. Please try again.">>
  /\ isLoadingQuestions' = FALSE
  /\ questionsInFlight' = questionsInFlight - 1
  /\ UNCHANGED <<jobSkills, isLoading, interviewQuestions, structuredJobData, backendStatus,
                 healthCheck, analysesInFlight, questionPosts>>
  /\ UNCHANGED <<handlerVars, invocations, form>>

AppNext ==
  \/ CheckBackendStatus
  \/ HealthAnswers
  \/ HealthFails
  \/ AnalyzeJobPosting
  \/ AnalysisReturns
  \/ AnalysisFails
  \/ GenerateInterviewQuestions
  \/ QuestionsReturn
  \/ QuestionsFail

AppSpec == Init /\ [][AppNext]_vars

----------------------------------------------------------------------------
(* Several invocations of the handler in one process.  Every value the     *)
(* handler computes is a const or let local of its invocation; the module  *)
(* holds the openai client only, which no invocation writes.               *)

\* The pages and the completion texts of these runs.
ConcPages ==
  {[ld |-> <<>>, meta |-> metas, body |-> <<>>] : metas \in {<<>>} \cup {<<m>> : m \in Metas}}
ConcResponses == {<<"{", "}">>, <<"m">>}

\* Invocation i runs from its entry to its first await or to its return.
ConcStartWith(i, ev) ==
  /\ invocations' = [invocations EXCEPT ![i] =
        IF ev.httpMethod # "POST"
        THEN [@ EXCEPT !.event = ev, !.pc = "done",
                       !.response = Respond(405, [error |-> <<"Method not allowed">>])]
        ELSE IF ev.body = "malformed"
        THEN [@ EXCEPT !.event = ev, !.pc = "done",
                       !.response = Respond(500, [error |-> <<"Failed to analyze job posting">>,
                                                  details |-> <<"Unexpected token">>])]
        ELSE IF ev.body = "no url"
        THEN [@ EXCEPT !.event = ev, !.pc = "done",
                       !.response = Respond(400, [error |-> <<"URL is required">>])]
        ELSE [@ EXCEPT !.event = ev, !.pc = "fetching"]]
  /\ UNCHANGED <<handlerVars, appVars, form>>

ConcStart ==
  \E i \in Requests :
    /\ invocations[i].pc = "idle"
    /\ \E ev \in Events : ConcStartWith(i, ev)

\* A description kept in a variable of the module, which every invocation
\* reads and writes.
ConcFetchReturnsShared(i, page) ==
  /\ invocations' = [j \in Requests |->
        IF j = i
        THEN [invocations[j] EXCEPT !.fetched = FetchedPage, !.html = page,
                                    !.jobDescription = Extract(page), !.pc = "extracted"]
        ELSE [invocations[j] EXCEPT !.jobDescription = Extract(page)]]
  /\ UNCHANGED <<handlerVars, appVars, form>>

\* The GET of invocation i returns `page`: its fetchJobDescription runs to
\* its return.
ConcFetchReturnsWith(i, page) ==
  /\ invocations' = [invocations EXCEPT ![i] =
        [@ EXCEPT !.fetched = FetchedPage, !.html = page,
                  !.jobDescription = Extract(page), !.pc = "extracted"]]
  /\ UNCHANGED <<handlerVars, appVars, form>>

ConcFetchReturns ==
  \E i \in Requests :
    /\ invocations[i].pc = "fetching"
    /\ \E page \in ConcPages : ConcFetchReturnsWith(i, page)

\* Invocation i resumes with its description.
ConcResumes ==
  \E i \in Requests :
    /\ invocations[i].pc = "extracted"
    /\ invocations' = [invocations EXCEPT ![i] =
          IF ~Truthy(invocations[i].jobDescription)
          THEN [@ EXCEPT !.pc = "done",
                         !.response = Respond(400,
                            [error |-> <<"Could not extract job description from the provided URL">>])]
          ELSE [@ EXCEPT !.pc = "analyzing", !.prompt = SkillsPrompt(invocations[i].jobDescription)]]
    /\ UNCHANGED <<handlerVars, appVars, form>>

\* The GET of invocation i fails.
ConcFetchFails ==
  \E i \in Requests :
    /\ invocations[i].pc = "fetching"
    /\ \E message \in FetchErrors :
         /\ message = TimeoutMessage => rev = "part_003"
         /\ invocations' = [invocations EXCEPT ![i] =
               [@ EXCEPT !.fetched = FetchFailed(message), !.pc = "done",
                         !.response = ErrorResponse(rev, FetchThrows(rev, message))]]
    /\ UNCHANGED <<handlerVars, appVars, form>>

\* The completion call of invocation i returns the text `raw`.
ConcModelReturns ==
  \E i \in Requests :
    /\ invocations[i].pc = "analyzing"
    /\ \E raw \in ConcResponses :
         invocations' = [invocations EXCEPT ![i] =
           [@ EXCEPT !.completion = Completed(raw), !.pc = "done",
                     !.response = [statusCode |-> 200,
                                   body |-> JSONStringify(AnalyzeJobSkills(raw))]]]
    /\ UNCHANGED <<handlerVars, appVars, form>>

\* The completion call of invocation i returns a null content.
ConcModelReturnsNull ==
  \E i \in Requests :
    /\ invocations[i].pc = "analyzing"
    /\ invocations' = [invocations EXCEPT ![i] =
          [@ EXCEPT !.completion = NullContent, !.pc = "done",
                    !.response = ErrorResponse(rev, AnalyzeThrows(rev, NullContentMessage))]]
    /\ UNCHANGED <<handlerVars, appVars, form>>

\* The completion call of invocation i fails.
ConcModelFails ==
  \E i \in Requests :
    /\ invocations[i].pc = "analyzing"
    /\ \E message \in ModelErrors :
         invocations' = [invocations EXCEPT ![i] =
           [@ EXCEPT !.completion = FailedCompletion(message), !.pc = "done",
                     !.response = ErrorResponse(rev, AnalyzeThrows(rev, message))]]
    /\ UNCHANGED <<handlerVars, appVars, form>>

ConcNext ==
  \/ ConcStart
  \/ ConcFetchReturns
  \/ ConcResumes
  \/ ConcFetchFails
  \/ ConcModelReturns
  \/ ConcModelReturnsNull
  \/ ConcModelFails

ConcSpec == Init /\ [][ConcNext]_vars

----------------------------------------------------------------------------
(* JobResearch: the URL form.                                              *)

\* The text of the input is a sequence of lexemes: a space, a letter, a
\* letter followed by a colon, and a listed substring in lower and in upper
\* case.
UrlLexemes == {" ", "x", "a:", "job/", "JOB/"}
Urls == SeqsUpTo(UrlLexemes, MaxUrl)

\* new URL(url) without a base: leading and trailing spaces are stripped,
\* and what remains has to start with a scheme, letters up to a colon.  The
\* scheme here is not a special one, so whatever follows it is accepted.
Parses(url) ==
  LET t == Trim(url) IN
    \E k \in 1..Len(t) : t[k] = "a:" /\ \A j \in 1..(k - 1) : t[j] = "x"

toLowerCase(url) == [i \in 1..Len(url) |-> IF url[i] = "JOB/" THEN "job/" ELSE url[i]]

jobSiteDomains ==
  <<"indeed.com", "glassdoor.com", "monster.com", "ziprecruiter.com", "lever.co",
    "greenhouse.io", "workday", "jobs.", "career", "careers", "apply", "job-", "job/",
    "position", "vacancy", "recruit">>

\* url.includes(domain): no lexeme holds a part of a listed substring.
Includes(url, domain) == \E i \in 1..Len(url) : url[i] = domain

InvalidUrlMessage == <<"Please enter a valid URL">>
NotJobSiteMessage ==
  <<"This doesn't appear to be a job listing URL. Please enter a URL from a job board or company careers page.">>
EmptyUrlMessage == <<"Please enter a URL">>

validateJobUrl(url) ==
  IF ~Parses(url) THEN InvalidUrlMessage
  ELSE IF ~\E d \in 1..Len(jobSiteDomains) : Includes(toLowerCase(url), jobSiteDomains[d])
  THEN NotJobSiteMessage
  ELSE <<>>

\* A handleSubmit without the test for a blank input.
HandleSubmitUnchecked ==
  /\ form' = IF Truthy(validateJobUrl(form.jobUrl))
             THEN [form EXCEPT !.urlError = validateJobUrl(form.jobUrl)]
             ELSE [form EXCEPT !.urlError = <<>>, !.onSubmit = <<form.jobUrl>>]
  /\ UNCHANGED <<handlerVars, appVars, invocations>>

\* handleSubmit: the form is submitted with the text the input holds.
HandleSubmit ==
  /\ form' = IF ~Truthy(Trim(form.jobUrl))
             THEN [form EXCEPT !.urlError = EmptyUrlMessage]
             ELSE IF Truthy(validateJobUrl(form.jobUrl))
             THEN [form EXCEPT !.urlError = validateJobUrl(form.jobUrl)]
             ELSE [form EXCEPT !.urlError = <<>>, !.onSubmit = <<form.jobUrl>>]
  /\ UNCHANGED <<handlerVars, appVars, invocations>>

\* The texts one edit of the input leads to: a lexeme typed at the end or
\* the last one deleted.
Edits(url) ==
  {Append(url, c) : c \in IF Len(url) < MaxUrl THEN UrlLexemes ELSE {}}
    \cup (IF url = <<>> THEN {} ELSE {SubSeq(url, 1, Len(url) - 1)})

\* handleUrlChange: the input's change event with the new text.
HandleUrlChangeTo(value) ==
  /\ form' = [form EXCEPT !.jobUrl = value,
                          !.urlError = IF Truthy(@) THEN <<>> ELSE @]
  /\ UNCHANGED <<handlerVars, appVars, invocations>>

HandleUrlChange == \E value \in Edits(form.jobUrl) : HandleUrlChangeTo(value)

FormNext ==
  \/ HandleSubmit
  \/ HandleUrlChange

FormSpec == Init /\ [][FormNext]_vars

----------------------------------------------------------------------------
(* The shapes of a result, and what a model response holds.                *)

StructuredSkillsKeys ==
  {"job_title", "company", "location", "salary", "required_skills",
   "preferred_skills", "benefits"}
IsStructuredSkills(v) == v.kind = "object" /\ DOMAIN v.obj \subseteq StructuredSkillsKeys
IsFallbackResult(v) == v.kind = "object" /\ DOMAIN v.obj = {"raw_output"}

\* The request went through both calls and the model answered with a text.
ModelAnswered == pc = "done" /\ completion.outcome = "content"

WithoutSpaces(t) == SelectSeq(t, LAMBDA c : ~IsSpace(c))

\* The text is one JSON object and white space, and the object it encodes.
EncodesObject(t) == WithoutSpaces(t) \in {<<"{", "}">>, <<"{", "m", "}">>}
EncodedObject(t) ==
  ObjectValue(IF \E i \in 1..Len(t) : t[i] = "m" THEN [job_title |-> <<"X">>] ELSE <<>>)

\* Neither the text nor the substring from its first "{" to its last "}"
\* is JSON.
Unparseable(t) ==
  /\ ~JSONParse(t).ok
  /\ MatchBraces(t).found => ~JSONParse(MatchBraces(t).text).ok

\* The text is prose around one or more JSON objects: its braces pair up,
\* one object after the other, and each pair encloses a JSON object.
Braces(t) == Positions(t, "{") \cup Positions(t, "}")
NextBrace(t, i) == Min({j \in Braces(t) : j > i})
ProseAroundObjects(t) ==
  /\ Positions(t, "{") # {}
  /\ Min(Braces(t)) \in Positions(t, "{")
  /\ \A o \in Positions(t, "{") :
       /\ \E j \in Braces(t) : j > o
       /\ NextBrace(t, o) \in Positions(t, "}")
       /\ EncodesObject(SubSeq(t, o, NextBrace(t, o)))
  /\ \A c \in Positions(t, "}") :
       (\E j \in Braces(t) : j > c) => NextBrace(t, c) \in Positions(t, "{")
FirstObject(t) == SubSeq(t, Min(Positions(t, "{")), Min(Positions(t, "}")))

----------------------------------------------------------------------------
(* Claims.                                                                 *)

\* C1: every run whose fetch and model call succeed answers with exactly one
\* of a StructuredSkills object and a FallbackResult: never neither, never
\* both.
C1_ExactlyOneShape ==
  ModelAnswered =>
    LET body == JSONParse(response.body) IN
    /\ body.ok
    /\ IsStructuredSkills(body.value) # IsFallbackResult(body.value)

\* C2: when the model answers with a text that parses neither directly nor
\* through its brace-delimited substring, analyzeJobSkills returns a
\* FallbackResult and the handler answers 200 with that FallbackResult as
\* its body.
C2_ParseDegradation ==
  (ModelAnswered /\ Unparseable(completion.content)) =>
    /\ IsFallbackResult(skills)
    /\ response.statusCode = 200
    /\ JSONParse(response.body) = [ok |-> TRUE, value |-> skills]

\* C2, witness: a text with braces whose substring does not parse either
\* was answered 200.
C2_Witness ==
  /\ ModelAnswered
  /\ MatchBraces(completion.content).found
  /\ Unparseable(completion.content)
  /\ response.statusCode = 200
  /\ IsFallbackResult(skills)

\* C3: when the model answers with a clean JSON object, analyzeJobSkills
\* returns the object the text encodes, with the same fields, and the
\* handler answers 200 with a body that encodes the same object.
C3_RoundTrip ==
  (ModelAnswered /\ EncodesObject(completion.content)) =>
    /\ skills = EncodedObject(completion.content)
    /\ response.statusCode = 200
    /\ JSONParse(response.body) = [ok |-> TRUE, value |-> EncodedObject(completion.content)]

\* C3, witness: an object with a field, written with white space, came back
\* with that field.
C3_Witness ==
  /\ ModelAnswered
  /\ completion.content = <<"{", " ", "m", "}", " ">>
  /\ skills = ObjectValue([job_title |-> <<"X">>])
  /\ response.body = <<"{", "m", "}">>

\* C4: when direct parsing fails on a text made of prose around one or more
\* JSON objects, the result is the parse of the first of these objects.
C4_FirstObject ==
  (/\ ModelAnswered
   /\ ~JSONParse(completion.content).ok
   /\ ProseAroundObjects(completion.content)) =>
    skills = EncodedObject(FirstObject(completion.content))

\* C5, as stated: when the text parses neither directly nor through its
\* brace-delimited substring, the result is { raw_output: T } with T exactly
\* the text the model returned.
C5_RawOutputExact ==
  (ModelAnswered /\ Unparseable(completion.content)) =>
    skills = RawOutput(completion.content)

\* C5, amended: when the text parses neither directly nor through its
\* brace-delimited substring, the result is { raw_output: T } with T the
\* text the model returned less its leading and trailing white space.
C5_RawOutputTrimmed ==
  (ModelAnswered /\ Unparseable(completion.content)) =>
    skills = RawOutput(Trim(completion.content))

\* C5, witness: a padded text with an unparseable brace-delimited substring
\* came back whole, less the padding.
C5_Witness ==
  /\ ModelAnswered
  /\ completion.content = <<" ", "w", "{", "w", "}">>
  /\ skills = RawOutput(<<"w", "{", "w", "}">>)


----------------------------------------------------------------------------
(* What each extraction strategy has to offer on a page.                   *)

\* fetchJobDescription has returned: the page and the description it
\* returned for it are both in the state.
Extracted == pc = "extracted"

Indices(seq, P(_)) == {i \in 1..Len(seq) : P(seq[i])}

\* A JSON-LD block typed JobPosting that carries a description field, and
\* one whose description is not empty.
CarriesDescription(b) == b.parses /\ b.type = "JobPosting" /\ b.has
Qualifies(b) == CarriesDescription(b) /\ b.description # <<>>

\* The description of the first JobPosting block with a non-empty one.
LdYield(page) ==
  IF Indices(page.ld, Qualifies) = {} THEN <<>>
  ELSE page.ld[Min(Indices(page.ld, Qualifies))].description

\* The content of the first og:description tag.
MetaYield(page) ==
  IF page.meta # <<>> /\ page.meta[1].has THEN page.meta[1].content ELSE <<>>

\* The selectors of the list that match a node of the page, by position.
Matched(page) == {page.body[i].sel : i \in 1..Len(page.body)} \ {0}

\* The nodes, in document order, that match the first matching selector.
FirstSelection(page) ==
  LET first == Min(Matched(page)) IN
  [i \in 1..Cardinality(Indices(page.body, LAMBDA nd : nd.sel = first)) |->
     page.body[CHOOSE j \in Indices(page.body, LAMBDA nd : nd.sel = first) :
                 Cardinality({k \in Indices(page.body, LAMBDA nd : nd.sel = first) : k <= j}) = i]]

\* The texts of a sequence of nodes, one after the other.
RECURSIVE Combined(_)
Combined(nodes) ==
  IF Len(nodes) = 0 THEN <<>>
  ELSE Combined(SubSeq(nodes, 1, Len(nodes) - 1)) \o nodes[Len(nodes)].text

SelYield(page) == IF Matched(page) = {} THEN <<>> ELSE Combined(FirstSelection(page))
BodyYield(page) == Combined(page.body)

\* C6, as stated: a page with a JobPosting block that carries a description
\* yields exactly the description of the first such block.
C6_FirstDescriptionExact ==
  (Extracted /\ Indices(html.ld, CarriesDescription) # {}) =>
    jobDescription = html.ld[Min(Indices(html.ld, CarriesDescription))].description

\* C6, amended: a page with a JobPosting block whose description is a
\* non-empty string yields the description of the first such block, less
\* its leading and trailing white space, whatever else the page holds.
C6_FirstDescriptionTrimmed ==
  (Extracted /\ Indices(html.ld, Qualifies) # {}) =>
    jobDescription = Trim(html.ld[Min(Indices(html.ld, Qualifies))].description)

\* C6, witness: two JobPosting blocks with different descriptions and an
\* og:description tag; the first description came back, less its padding.
C6_Witness ==
  /\ Extracted
  /\ html.ld = <<JobPosting(TRUE, <<" ", "b">>), JobPosting(TRUE, <<"a">>)>>
  /\ MetaYield(html) = <<"c">>
  /\ jobDescription = <<"b">>

StrategyNames == <<"json-ld", "meta", "selectors", "body">>
Yields(page) == <<LdYield(page), MetaYield(page), SelYield(page), BodyYield(page)>>

\* C7: the strategies form an ordered short-circuiting chain: a strategy is
\* consulted exactly when every one before it gave the empty text, and the
\* description returned is the text (trimmed) of the first strategy that
\* gave one.
C7_ShortCircuit ==
  Extracted =>
    LET y == Yields(html)
        gave == {k \in 1..4 : y[k] # <<>>}
    IN /\ \A k \in 1..4 :
            StrategyNames[k] \in consulted <=> \A j \in 1..(k - 1) : y[j] = <<>>
       /\ jobDescription = IF gave = {} THEN <<>> ELSE Trim(y[Min(gave)])

\* C7, witness: JSON-LD and the meta tag gave nothing, a selector matched,
\* and the body, which holds more text, was not consulted.
C7_Witness ==
  /\ Extracted
  /\ html.meta # <<>>
  /\ consulted = {"json-ld", "meta", "selectors"}
  /\ jobDescription = <<"e">>
  /\ BodyYield(html) = <<"e", "e">>

\* C8, as stated: a page with no qualifying JSON-LD description and with an
\* og:description tag yields that tag's content.
C8_MetaContentExact ==
  (Extracted /\ LdYield(html) = <<>> /\ html.meta # <<>>) =>
    jobDescription = html.meta[1].content

\* C8, amended: a page with no JobPosting block of non-empty description and
\* whose first og:description tag has a non-empty content yields that
\* content less its leading and trailing white space.
C8_MetaContentTrimmed ==
  (Extracted /\ LdYield(html) = <<>> /\ MetaYield(html) # <<>>) =>
    jobDescription = Trim(MetaYield(html))

\* C8, witness: no usable JSON-LD, two og:description tags and a node that
\* matches a selector; the content of the first tag came back, trimmed.
C8_Witness ==
  /\ Extracted
  /\ html.ld = <<>>
  /\ html.meta = <<[has |-> TRUE, content |-> <<"d", " ">>], [has |-> TRUE, content |-> <<"c">>]>>
  /\ Matched(html) # {}
  /\ jobDescription = <<"d">>

\* C9, as stated: with no JSON-LD description and no og:description, a page
\* with an element matching a known selector yields the text of the first
\* element that matches the first matching selector.
C9_FirstElementText ==
  (Extracted /\ LdYield(html) = <<>> /\ MetaYield(html) = <<>> /\ Matched(html) # {}) =>
    jobDescription = FirstSelection(html)[1].text

\* C9, amended: with no JSON-LD description and no og:description, a page
\* with elements matching a known selector yields the combined text of all
\* the elements that match the first selector of the list that matches any,
\* less its leading and trailing white space, when that text is not empty.
C9_FirstSelectorText ==
  (Extracted /\ LdYield(html) = <<>> /\ MetaYield(html) = <<>> /\ SelYield(html) # <<>>) =>
    jobDescription = Trim(SelYield(html))

\* C9, witness: the first node matches a later selector than the two nodes
\* after it; the text of these two came back.
C9_Witness ==
  /\ Extracted
  /\ Len(html.body) = 3
  /\ html.body[1] = [sel |-> 5, text |-> <<"e">>]
  /\ html.body[2].sel = 2 /\ html.body[3].sel = 2
  /\ jobDescription = <<"e", "e">>

\* C10: when JSON-LD, og:description and the selectors all give the empty
\* text, the page yields the text of its body less its leading and trailing
\* white space, which is the empty text when the body is empty or blank.
C10_BodyText ==
  (Extracted /\ LdYield(html) = <<>> /\ MetaYield(html) = <<>> /\ SelYield(html) = <<>>) =>
    /\ jobDescription = Trim(BodyYield(html))
    /\ (\A i \in 1..Len(BodyYield(html)) : IsSpace(BodyYield(html)[i])) => jobDescription = <<>>

\* C10, witness: a body padded with white space, in which an element
\* matches a selector but has no text, came back trimmed.
C10_Witness ==
  /\ Extracted
  /\ Matched(html) # {}
  /\ LdYield(html) = <<>> /\ MetaYield(html) = <<>> /\ SelYield(html) = <<>>
  /\ BodyYield(html) = <<" ", "e">>
  /\ jobDescription = <<"e">>

----------------------------------------------------------------------------
(* Claims about the handler's responses.                                   *)

\* The parsed body of a response, and its error field.
BodyOf(resp) == JSONParse(resp.body)
ErrorOf(resp) == Field(BodyOf(resp).value, "error")
DetailsOf(resp) == Field(BodyOf(resp).value, "details")

CouldNotExtract == <<"Could not extract job description from the provided URL">>

\* The responses the revision gives when the GET fails.
FetchFailureResponses(r) ==
  {ErrorResponse(r, FetchThrows(r, message)) : message \in FetchErrors}

\* C11: when fetchJobDescription has returned the empty string, the
\* handler's next step ends the request without a model call, with status
\* 400 and the error 'Could not extract job description from the provided
\* URL'; this response is not a 200 and differs in status and in message
\* from every response the handler gives for a failed GET.
C11_EmptyShortCircuits ==
  [][(pc = "extracted" /\ jobDescription = <<>>) =>
       /\ pc' = "done"
       /\ modelCalls' = 0
       /\ completion' = NoCompletion
       /\ response'.statusCode = 400
       /\ ErrorOf(response') = CouldNotExtract
       /\ \A f \in FetchFailureResponses(rev) :
            /\ f.statusCode # response'.statusCode
            /\ ErrorOf(f) # ErrorOf(response')]_vars

\* C11, witness: a request whose page gave no description ended with the
\* 400 and without a model call.
C11_Witness ==
  /\ pc = "done"
  /\ fetched = FetchedPage
  /\ modelCalls = 0
  /\ response.statusCode = 400
  /\ ErrorOf(response) = CouldNotExtract

----------------------------------------------------------------------------
(* Claims about the extractor's fallbacks.                                 *)

\* A text with something left after trimming.
Usable(t) == Trim(t) # <<>>

\* C12: fetchJobDescription returns the empty string only for a page on
\* which no strategy has a text that is non-empty after trimming to offer:
\* not the first JobPosting description, not the og:description content,
\* not the text of the first selector that matches, not the body text.
C12_EmptyOnlyWhenNothing ==
  (Extracted /\ jobDescription = <<>>) =>
    \A i \in 1..Len(StrategyNames) : ~Usable(Yields(html)[i])

\* The status codes the handler answers with.
StatusCodes == {200, 400, 405, 500}

\* C13: no exception escapes the handler: a handler that has ended has
\* resolved to a response with a status code and a body that is a JSON
\* text, whatever the method, the body, the outcome of the GET, the page
\* and the outcome of the completion call (a null content included); and a
\* handler that has not ended is waiting for a call that can end.
C13_AlwaysResponds ==
  /\ pc = "done" =>
       /\ response.statusCode \in StatusCodes
       /\ BodyOf(response).ok
  /\ pc # "done" =>
       /\ response = NoResponse
       /\ ENABLED Next

\* C13, witness: the model answered with a null content and the handler
\* resolved to a 500 with a JSON body.
C13_Witness ==
  /\ pc = "done"
  /\ completion = NullContent
  /\ response.statusCode = 500
  /\ BodyOf(response).ok
  /\ DetailsOf(response) # <<>>

\* The text ends with the message.
EndsWith(t, message) ==
  /\ Len(t) >= Len(message)
  /\ SubSeq(t, Len(t) - Len(message) + 1, Len(t)) = message

FetchErrorText == <<"Failed to fetch job description">>

\* C14: when the completion call fails, the handler answers 500 with a
\* response that reports a failure of the model call and not of the fetch,
\* whose details end with the upstream message, and the completion call
\* was issued once.
C14_ModelErrorReported ==
  (pc = "done" /\ completion.outcome = "error") =>
    /\ response.statusCode = 500
    /\ ErrorOf(response) # FetchErrorText
    /\ EndsWith(DetailsOf(response), completion.content)
    /\ modelCalls = 1

\* C15: when the GET fails, the handler answers with a 4xx or 5xx status
\* and a body whose details end with the upstream error message, no
\* completion call is issued for the request, and the GET was issued once.
C15_FetchErrorReported ==
  (pc = "done" /\ fetched.outcome = "error") =>
    /\ response.statusCode \in 400..599
    /\ EndsWith(DetailsOf(response), fetched.message)
    /\ modelCalls = 0
    /\ completion = NoCompletion
    /\ gets = 1

\* C15, witness: in part_002 a GET answered 404 ended the request with a
\* 500 whose details wrap the upstream message.
C15_Witness ==
  /\ pc = "done"
  /\ rev = "part_002"
  /\ fetched = FetchFailed(<<"Request failed with status code 404">>)
  /\ response.statusCode = 500
  /\ DetailsOf(response) =
       <<"Failed to fetch job description: ", "Request failed with status code 404">>
  /\ modelCalls = 0

\* Messages of a call ended by its timeout.
TimeoutMessages == {TimeoutMessage, <<"Request timed out.">>}

\* C16: both outbound calls are bounded by a timeout in every revision:
\* while the GET is outstanding its failure with a timeout error is a
\* possible next step, and while the completion call is outstanding so is
\* its failure with a timeout error, so that no request waits forever.
C16_BoundedTimeouts ==
  /\ pc = "fetching" => ENABLED (FetchFails /\ fetched'.message \in TimeoutMessages)
  /\ pc = "analyzing" => ENABLED (ModelFails /\ completion'.content \in TimeoutMessages)

\* C17: within one request the handler issues at most one GET and at most
\* one completion call, and no completion call without a GET, whatever the
\* outcome of either call.
C17_SingleAttempt ==
  /\ gets <= 1
  /\ modelCalls <= gets
  /\ fetched.outcome # "none" => gets = 1
  /\ completion.outcome # "none" => modelCalls = 1

\* C17, witness: a request ended after a failed completion call, with one
\* GET and one completion call issued.
C17_Witness ==
  /\ pc = "done"
  /\ gets = 1
  /\ modelCalls = 1
  /\ completion.outcome = "error"

\* An error object: an error field and at most a details field beside it.
IsErrorObject(v) ==
  /\ v.kind = "object"
  /\ "error" \in DOMAIN v.obj
  /\ DOMAIN v.obj \subseteq {"error", "details"}

\* C18: the body of every response of the handler is a JSON text that
\* encodes a StructuredSkills object, a FallbackResult or an error object
\* with an error field and at most a details field.
C18_ResponseShapes ==
  pc = "done" =>
    /\ BodyOf(response).ok
    /\ \/ IsStructuredSkills(BodyOf(response).value)
       \/ IsFallbackResult(BodyOf(response).value)
       \/ IsErrorObject(BodyOf(response).value)

----------------------------------------------------------------------------
(* Claims about the App.                                                   *)

\* C19: the job_details that generateInterviewQuestions posts is the
\* analysis response the App holds, whenever that response is a
\* StructuredSkills object (with or without job_title and required_skills)
\* or a FallbackResult.
C19_PostsAnalysisResponse ==
  [][(/\ Len(questionPosts') > Len(questionPosts)
      /\ IsStructuredSkills(jobSkills) \/ IsFallbackResult(jobSkills)) =>
       questionPosts'[Len(questionPosts')].job_details = jobSkills]_vars

----------------------------------------------------------------------------
(* Claims about malformed JSON-LD.                                         *)

\* The page less its JSON-LD blocks that do not parse.
WithoutMalformed(page) == [page EXCEPT !.ld = SelectSeq(page.ld, LAMBDA b : b.parses)]

\* The text the chain arrives at: the first non-empty yield among JSON-LD,
\* og:description, selectors and body, trimmed.
ChainResult(page) ==
  LET given == {i \in 1..Len(StrategyNames) : Yields(page)[i] # <<>>} IN
  IF given = {} THEN <<>> ELSE Trim(Yields(page)[Min(given)])

\* C20: a JSON-LD block that does not parse never aborts the extraction:
\* the description returned for a page with such a block is the one
\* returned for the same page with its malformed blocks removed (the blocks
\* after a malformed one are examined, and the og:description, selector and
\* body strategies are reached when no block qualifies), and the same
\* strategies are consulted.
C20_MalformedSkipped ==
  (Extracted /\ \E i \in 1..Len(html.ld) : ~html.ld[i].parses) =>
    LET page == WithoutMalformed(html) IN
    /\ jobDescription = Extract(page)
    /\ jobDescription = ChainResult(page)
    /\ consulted = Consulted(page)

\* C20, witness: a malformed block came before a JobPosting block, whose
\* description was returned.
C20_Witness ==
  /\ Extracted
  /\ Len(html.ld) = 2
  /\ html.ld[1] = Malformed
  /\ Qualifies(html.ld[2])
  /\ jobDescription = <<"a">>

----------------------------------------------------------------------------
(* Claims about the order of the calls and the requests that make none.    *)

\* C21: the two outbound calls of a request are sequential: no completion
\* call is issued, in flight or ended while the handler has not resumed
\* from the GET; a completion call was issued only after the GET returned
\* a page; and while it is in flight the description extracted is
\* non-empty and is the text its prompt carries.
C21_Sequential ==
  /\ pc \in {"idle", "fetching", "extracted"} =>
       /\ modelCalls = 0
       /\ completion = NoCompletion
       /\ prompt = NoPrompt
  /\ modelCalls > 0 => fetched = FetchedPage /\ gets = 1
  /\ pc = "analyzing" =>
       /\ Truthy(jobDescription)
       /\ prompt = SkillsPrompt(jobDescription)
       /\ completion = NoCompletion

\* C21, witness: the completion call is in flight after the GET returned a
\* page with a description.
C21_Witness ==
  /\ pc = "analyzing"
  /\ fetched = FetchedPage
  /\ gets = 1
  /\ modelCalls = 1
  /\ prompt.jobText = <<"c">>

\* C30: the handler issues no outbound call unless the request is a POST
\* whose body carries a non-empty url: any other method is answered 405
\* 'Method not allowed' whatever the body (which is not parsed), and a POST
\* whose body has no url or an empty one is answered 400 'URL is required';
\* in both cases no GET and no completion call is issued.
C30_NoCallWithoutUrl ==
  /\ (event # NoEvent /\ event.httpMethod # "POST") =>
       /\ pc = "done"
       /\ response = Respond(405, [error |-> <<"Method not allowed">>])
       /\ gets = 0 /\ modelCalls = 0
  /\ (event.httpMethod = "POST" /\ event.body = "no url") =>
       /\ pc = "done"
       /\ response = Respond(400, [error |-> <<"URL is required">>])
       /\ gets = 0 /\ modelCalls = 0
  /\ (gets > 0 \/ modelCalls > 0) => (event.httpMethod = "POST" /\ event.body = "url")

\* C30, witness: a GET with a body that is not JSON was answered 405.
C30_Witness ==
  /\ event = [httpMethod |-> "GET", body |-> "malformed"]
  /\ response.statusCode = 405
  /\ ErrorOf(response) = <<"Method not allowed">>
  /\ gets = 0

\* What one request is answered when it runs alone, from its own event,
\* the outcome of its own GET and the outcome of its own completion call.
OwnAnswer(r, inv) ==
  IF inv.event.httpMethod # "POST"
  THEN Respond(405, [error |-> <<"Method not allowed">>])
  ELSE IF inv.event.body = "malformed"
  THEN Respond(500, [error |-> <<"Failed to analyze job posting">>,
                     details |-> <<"Unexpected token">>])
  ELSE IF inv.event.body = "no url"
  THEN Respond(400, [error |-> <<"URL is required">>])
  ELSE IF inv.fetched.outcome = "error"
  THEN ErrorResponse(r, FetchThrows(r, inv.fetched.message))
  ELSE IF ~Truthy(Extract(inv.html))
  THEN Respond(400, [error |-> <<"Could not extract job description from the provided URL">>])
  ELSE IF inv.completion.outcome = "content"
  THEN [statusCode |-> 200, body |-> JSONStringify(AnalyzeJobSkills(inv.completion.content))]
  ELSE IF inv.completion.outcome = "null content"
  THEN ErrorResponse(r, AnalyzeThrows(r, NullContentMessage))
  ELSE ErrorResponse(r, AnalyzeThrows(r, inv.completion.content))

\* C22: under every interleaving of the invocations, the description an
\* invocation holds is the one extracted from the page fetched for it, the
\* prompt it sends is built from that description, an invocation that has
\* not returned has no response, and the response of one that has returned
\* is the one its own event, page and completion give when it runs alone:
\* nothing an invocation holds is written by another.
C22_Independent ==
  \A i \in Requests :
    LET inv == invocations[i] IN
      /\ inv.pc \in {"extracted", "analyzing"} => inv.jobDescription = Extract(inv.html)
      /\ inv.pc = "analyzing" => inv.prompt = SkillsPrompt(Extract(inv.html))
      /\ inv.pc # "done" => inv.response = NoResponse
      /\ inv.pc = "done" => inv.response = OwnAnswer(rev, inv)

\* Reached: the first invocation is analyzing a description while the
\* second, started after it, has fetched a page with another description.
C22_Witness ==
  /\ invocations[1].pc = "analyzing"
  /\ invocations[1].jobDescription = <<"c">>
  /\ invocations[2].pc = "extracted"
  /\ invocations[2].jobDescription = <<"d">>

\* C23: the questions the App holds were asked for the analysis it holds:
\* whenever interviewQuestions is set, there is an analysis response and
\* the last question request carried the job details of that analysis.
C23_QuestionsOfCurrentAnalysis ==
  interviewQuestions # NoValue =>
    /\ jobSkills # NoValue
    /\ questionPosts # <<>>
    /\ questionPosts[Len(questionPosts)].job_details = DataToSend

\* C24: when the health endpoint has answered and no check is in flight or
\* scheduled any more, backendStatus is ready, whatever the answer was.
C24_ReadyOnceAnswered == healthCheck = "none" => backendStatus = "ready"

\* C25: isLoading is true exactly while an analysis request is in flight
\* and isLoadingQuestions exactly while a question request is in flight; so
\* when every request has settled, with a response or with a failure, both
\* flags are false.
C25_LoadingFlags ==
  /\ isLoading <=> analysesInFlight > 0
  /\ isLoadingQuestions <=> questionsInFlight > 0

\* Reached: a question request has failed and nothing is in flight.
C25_Witness ==
  /\ error = <<"Failed to generate interview questions. Please try again.">>
  /\ analysesInFlight = 0 /\ questionsInFlight = 0
  /\ ~isLoading /\ ~isLoadingQuestions

\* C26: an analyze request is issued only while backendStatus is ready,
\* isLoading is false and no analyze request is in flight; so at most one
\* is in flight at any time and none before the backend is ready.
C26_OneAnalysisWhenReady ==
  [][analysesInFlight' > analysesInFlight =>
       /\ backendStatus = "ready"
       /\ ~isLoading
       /\ analysesInFlight = 0
       /\ analysesInFlight' = 1]_vars

\* Reached: a second analysis is in flight, after the first one returned.
C26_Witness ==
  /\ analysesInFlight = 1
  /\ backendStatus = "ready"
  /\ Len(questionPosts) > 0

\* C27: while an analysis is loading, and after it has failed, the App
\* holds no result of an earlier job: jobSkills, structuredJobData and
\* interviewQuestions are null.
C27_NoEarlierResults ==
  (isLoading \/ error \in AnalysisErrors) =>
    /\ jobSkills = NoValue
    /\ structuredJobData = NoValue
    /\ interviewQuestions = NoValue

\* C28: a question request is issued only while jobSkills is set, and
\* neither issuing it nor its settling changes jobSkills or
\* structuredJobData; when it settles isLoadingQuestions becomes false and
\* either interviewQuestions takes the response and error is kept, or
\* error takes the failure message and interviewQuestions is kept.
C28_AnalysisUntouched ==
  [][questionsInFlight' # questionsInFlight =>
       /\ jobSkills' = jobSkills
       /\ structuredJobData' = structuredJobData
       /\ isLoading' = isLoading
       /\ questionsInFlight' > questionsInFlight =>
            /\ jobSkills # NoValue
            /\ interviewQuestions' = interviewQuestions
            /\ error' = error
       /\ questionsInFlight' < questionsInFlight =>
            /\ isLoadingQuestions' = FALSE
            /\ \/ interviewQuestions' = Questions /\ error' = error
               \/ /\ interviewQuestions' = interviewQuestions
                  /\ error' = <<"Failed to generate interview questions. Please try again.">>]_vars

\* Reached: two question requests have settled, one with a failure, and
\* the questions of the other are held beside the analysis.
C28_Witness ==
  /\ error = <<"Failed to generate interview questions. Please try again.">>
  /\ interviewQuestions = Questions
  /\ jobSkills # NoValue
  /\ questionsInFlight = 0
  /\ Len(questionPosts) = 2

----------------------------------------------------------------------------
(* Claims about the URL form.                                              *)

\* A URL that is not blank, parses, and holds one of the listed substrings
\* whatever the case of its letters.
HoldsJobSite(url) ==
  \E i \in 1..Len(url) : \E d \in 1..Len(jobSiteDomains) :
    toLowerCase(<<url[i]>>) = <<jobSiteDomains[d]>>
Submittable(url) == Trim(url) # <<>> /\ Parses(url) /\ HoldsJobSite(url)

\* The message that goes with a URL that is not submittable.
MessageFor(url) ==
  IF Trim(url) = <<>> THEN EmptyUrlMessage
  ELSE IF ~Parses(url) THEN InvalidUrlMessage
  ELSE NotJobSiteMessage

\* C29: a step that calls onSubmit passes it the text of the input, which
\* is submittable, and leaves urlError empty; a submission of a text that is
\* not submittable calls nothing and sets urlError to the message that goes
\* with the text; an edit of the input leaves urlError empty and calls
\* nothing.
C29_SubmitsValidOnly ==
  [][/\ form'.onSubmit # form.onSubmit =>
          /\ form'.onSubmit = <<form.jobUrl>>
          /\ Submittable(form.jobUrl)
     /\ (form' # form /\ form'.jobUrl = form.jobUrl) =>
          IF Submittable(form.jobUrl)
          THEN form'.onSubmit = <<form.jobUrl>> /\ form'.urlError = <<>>
          ELSE form'.onSubmit = form.onSubmit /\ form'.urlError = MessageFor(form.jobUrl)
     /\ form'.jobUrl # form.jobUrl =>
          /\ form'.urlError = <<>>
          /\ form'.onSubmit = form.onSubmit]_vars

\* Reached: a URL with the substring in upper case and a space before it
\* has been passed to onSubmit, and a blank text was refused after that.
C29_Witness ==
  /\ form.onSubmit = << <<" ", "a:", "JOB/">> >>
  /\ form.jobUrl = <<" ">>
  /\ form.urlError = EmptyUrlMessage

====
